---- MODULE Spec2Model ----
(***************************************************************************)
(* Rust-Git: the repository layout (core/repository.rs), the locator       *)
(* find_repo, and the initializer initialize_git_repository                *)
(* (commands/init_repository.rs), over a filesystem of directories and     *)
(* regular files.                                                          *)
(*                                                                         *)
(* A path is the sequence of its components below the root "/", so the     *)
(* root is << >> and "/a/.git/HEAD" is <<"a", ".git", "HEAD">>.  The       *)
(* filesystem fs is a function whose domain is the set of paths that       *)
(* exist; an entry is a directory or a regular file with its content.      *)
(* File content is a sequence of byte chunks: a chunk is the unit in       *)
(* which one write(2) call accepts bytes.                                  *)
(***************************************************************************)
EXTENDS Integers, Sequences, FiniteSets, TLC

VARIABLES
    fs,       \* the filesystem: existing path -> entry
    proc,     \* per invocation slot: position in initialize_git_repository
    hist,     \* results of the finished invocations, oldest first
    faults,   \* I/O failures the environment may still inject
    loc,      \* the last result of locating (find_repo)
    fs0,      \* history: the filesystem before any invocation
    startFs,  \* history: the filesystem when the latest invocation began
    firstFs   \* history: << fs >> at the first successful return, else << >>

vars == <<fs, proc, hist, faults, loc, fs0, startFs, firstFs>>

----------------------------------------------------------------------------
(* Bounds of the model. *)

MaxRuns == 2      \* invocations of initialize_git_repository
MaxFaults == 1    \* injected I/O failures
MaxDepth == 3     \* depth of the deepest starting path for find_repo

DirNames == <<"a", "b", "c", "d", "e", "f">>

Procs == {"first", "second"}
Main == "first"

----------------------------------------------------------------------------
(* Paths and entries. *)

Dir == [kind |-> "dir", content |-> << >>]
File(c) == [kind |-> "file", content |-> c]
NoEntry == [kind |-> "none", content |-> << >>]

Parent(path) == SubSeq(path, 1, Len(path) - 1)

exists(f, path) == path \in DOMAIN f

is_dir(f, path) == path \in DOMAIN f /\ f[path].kind = "dir"

Put(f, path, e) == [q \in DOMAIN f \cup {path} |-> IF q = path THEN e ELSE f[q]]

\* Path::ancestors: self, parent, grandparent, ..., root
ancestors(path) == [i \in 1..(Len(path) + 1) |-> SubSeq(path, 1, Len(path) + 1 - i)]

----------------------------------------------------------------------------
(* Repository: the derived paths. *)

git_dir(base) == base \o <<".git">>
config(base) == base \o <<".git", "config">>
description(base) == base \o <<".git", "description">>
HEAD(base) == base \o <<".git", "HEAD">>
refs(base) == base \o <<".git", "refs">>
heads(base) == base \o <<".git", "refs", "heads">>
tags(base) == base \o <<".git", "refs", "tags">>
objects(base) == base \o <<".git", "objects">>
info(base) == base \o <<".git", "objects", "info">>
pack(base) == base \o <<".git", "objects", "pack">>

\* env::current_dir() of the initializer
cwd == SubSeq(DirNames, 1, 1)

----------------------------------------------------------------------------
(* The locator. *)

contains_git_dir(f, path) ==
    IF ~is_dir(f, path) THEN FALSE ELSE exists(f, git_dir(path))

Ok(path) == [tag |-> "Ok", variant |-> "", path |-> path]
NotAGitRepo(path) == [tag |-> "Err", variant |-> "NotAGitRepo", path |-> path]

RECURSIVE find_repo_loop(_, _, _, _)
find_repo_loop(f, path, anc, i) ==
    IF i > Len(anc) THEN NotAGitRepo(path)
    ELSE IF contains_git_dir(f, anc[i]) THEN Ok(anc[i])
    ELSE find_repo_loop(f, path, anc, i + 1)

\* mutants of find_repo: the walk starts at the parent; the walk runs from the
\* root downwards; the error carries the last ancestor probed
find_repo_skip_self(f, path) == find_repo_loop(f, path, ancestors(path), 2)
find_repo_farthest(f, path) ==
    find_repo_loop(f, path, [i \in 1..(Len(path) + 1) |-> SubSeq(path, 1, i - 1)], 1)
find_repo_root_err(f, path) == find_repo_loop(f, << >>, ancestors(path), 1)

find_repo(f, path) == find_repo_loop(f, path, ancestors(path), 1)

NoLoc == [set |-> FALSE, from |-> << >>, res |-> Ok(<< >>)]

----------------------------------------------------------------------------
(* The initializer's constants. *)

\* mutant of HEAD_BYTES: a trailing newline
HEAD_BYTES_newline == <<"ref: refs/heads/", "main", "\n">>

HEAD_BYTES == <<"ref: refs/heads/", "main">>
DESCRIPTION_BYTES ==
    <<"Unnamed repository; edit this file 'description' to name the repository.", "\n">>

DirTargets(base) == <<heads(base), tags(base), info(base), pack(base)>>
FileTargets(base) == <<HEAD(base), description(base), config(base)>>
FileBytes == <<HEAD_BYTES, DESCRIPTION_BYTES, << >> >>

----------------------------------------------------------------------------
(* The filesystem calls. *)

\* mkdir(2): the error of the first component that cannot be resolved
mkdir(f, path) ==
    IF exists(f, path) THEN "AlreadyExists"
    ELSE IF \E k \in 0..(Len(path) - 1) :
                exists(f, SubSeq(path, 1, k)) /\ ~is_dir(f, SubSeq(path, 1, k))
         THEN "NotADirectory"
    ELSE IF ~exists(f, Parent(path)) THEN "NotFound"
    ELSE "Ok"

\* open(2) with O_WRONLY | O_CREAT | O_TRUNC, as File::create
create(f, path) ==
    IF is_dir(f, path) THEN "IsADirectory"
    ELSE IF \E k \in 0..(Len(path) - 1) :
                exists(f, SubSeq(path, 1, k)) /\ ~is_dir(f, SubSeq(path, 1, k))
         THEN "NotADirectory"
    ELSE IF ~exists(f, Parent(path)) THEN "NotFound"
    ELSE "Ok"

\* mutant of pwrite: the file is open in append mode
pwrite_append(old, off, data) == old \o data

\* write(2) of data at offset off of a file whose content is old
pwrite(old, off, data) ==
    [i \in 1..(IF Len(old) > off + Len(data) THEN Len(old) ELSE off + Len(data)) |->
        IF i > off /\ i <= off + Len(data) THEN data[i - off]
        ELSE IF i <= Len(old) THEN old[i]
        ELSE "\\0"]

----------------------------------------------------------------------------
(* initialize_git_repository, one filesystem call per step. *)

Idle == [pc |-> "idle", cur |-> << >>, retry |-> FALSE, didx |-> 0, fidx |-> 0,
         off |-> 0, made |-> {}]

Running(p) == proc[p].pc \notin {"idle", "done", "failed"}

\* the create_dir_all frame at s.cur returned Ok(())
Returned(s) ==
    LET tgt == DirTargets(cwd)[s.didx] IN
    IF s.cur # tgt
    THEN [s EXCEPT !.pc = "mkdir", !.cur = SubSeq(tgt, 1, Len(s.cur) + 1), !.retry = TRUE]
    ELSE IF s.didx < Len(DirTargets(cwd))
    THEN [s EXCEPT !.pc = "mkdir", !.didx = @ + 1,
                   !.cur = DirTargets(cwd)[s.didx + 1], !.retry = FALSE]
    ELSE [s EXCEPT !.pc = "exists", !.didx = 0, !.cur = << >>, !.retry = FALSE, !.fidx = 1]

\* the block of file s.fidx is over
NextFile(s) ==
    IF s.fidx < Len(FileTargets(cwd))
    THEN [s EXCEPT !.pc = "exists", !.fidx = @ + 1, !.off = 0]
    ELSE [s EXCEPT !.pc = "ok", !.fidx = 0, !.off = 0]

initialize_git_repository(p) ==
    /\ ~Running(p)
    /\ Len(hist) + Cardinality({q \in Procs : Running(q)}) < MaxRuns
    /\ proc' = [proc EXCEPT ![p] =
                  [Idle EXCEPT !.pc = "mkdir", !.didx = 1, !.cur = DirTargets(cwd)[1]]]
    /\ startFs' = fs
    /\ loc' = NoLoc
    /\ UNCHANGED <<fs, hist, faults, fs0, firstFs>>

\* DirBuilder::create_dir_all: one mkdir call
Mkdir(p) ==
    /\ proc[p].pc = "mkdir"
    /\ LET s == proc[p]
           r == mkdir(fs, s.cur)
       IN /\ fs' = IF r = "Ok" THEN Put(fs, s.cur, Dir) ELSE fs
          /\ proc' = [proc EXCEPT ![p] =
                IF r = "Ok" THEN Returned(s)
                ELSE IF r = "NotFound" /\ ~s.retry
                THEN (IF Len(s.cur) = 0
                      THEN [s EXCEPT !.pc = "err"]
                      ELSE [s EXCEPT !.cur = Parent(s.cur)])
                ELSE [s EXCEPT !.pc = "isdir"]]
    /\ UNCHANGED <<hist, faults, loc, fs0, startFs, firstFs>>

\* mutant of IsDir: every mkdir error is returned, as fs::create_dir does
IsDir_propagate(p) ==
    /\ proc[p].pc = "isdir"
    /\ proc' = [proc EXCEPT ![p] = [proc[p] EXCEPT !.pc = "err"]]
    /\ UNCHANGED <<fs, hist, faults, loc, fs0, startFs, firstFs>>

\* DirBuilder::create_dir_all: Err(_) if path.is_dir() => Ok(()), Err(e) => Err(e)
IsDir(p) ==
    /\ proc[p].pc = "isdir"
    /\ proc' = [proc EXCEPT ![p] =
          IF is_dir(fs, proc[p].cur) THEN Returned(proc[p])
          ELSE [proc[p] EXCEPT !.pc = "err"]]
    /\ UNCHANGED <<fs, hist, faults, loc, fs0, startFs, firstFs>>

\* mutant of FileAbsent: no existence check, a blind overwrite
FileAbsent_always(f, path) == TRUE

\* if !head.exists() / !description.exists() / !config.exists()
FileAbsent(f, path) == ~exists(f, path)

Exists(p) ==
    /\ proc[p].pc = "exists"
    /\ proc' = [proc EXCEPT ![p] =
          IF FileAbsent(fs, FileTargets(cwd)[proc[p].fidx])
          THEN [proc[p] EXCEPT !.pc = "create"]
          ELSE NextFile(proc[p])]
    /\ UNCHANGED <<fs, hist, faults, loc, fs0, startFs, firstFs>>

\* fs::File::create(path)?
Create(p) ==
    /\ proc[p].pc = "create"
    /\ LET s == proc[p]
           path == FileTargets(cwd)[s.fidx]
           r == create(fs, path)
       IN /\ fs' = IF r = "Ok" THEN Put(fs, path, File(<< >>)) ELSE fs
          /\ proc' = [proc EXCEPT ![p] =
                IF r # "Ok" THEN [s EXCEPT !.pc = "err"]
                ELSE IF Len(FileBytes[s.fidx]) = 0
                THEN NextFile([s EXCEPT !.made = @ \cup {s.fidx}])
                ELSE [s EXCEPT !.pc = "write", !.off = 0, !.made = @ \cup {s.fidx}]]
    /\ UNCHANGED <<hist, faults, loc, fs0, startFs, firstFs>>

\* file.write_all(bytes)?: one write call, which accepts n of the remaining chunks
Write(p) ==
    /\ proc[p].pc = "write"
    /\ LET s == proc[p]
           path == FileTargets(cwd)[s.fidx]
           bytes == FileBytes[s.fidx]
       IN \E n \in 1..(Len(bytes) - s.off) :
            /\ fs' = Put(fs, path,
                         File(pwrite(fs[path].content, s.off,
                                     SubSeq(bytes, s.off + 1, s.off + n))))
            /\ proc' = [proc EXCEPT ![p] =
                  IF s.off + n = Len(bytes) THEN NextFile(s)
                  ELSE [s EXCEPT !.off = @ + n]]
    /\ UNCHANGED <<hist, faults, loc, fs0, startFs, firstFs>>

\* a filesystem call fails with an I/O error (permission denied, disk full, ...)
IoFail(p) ==
    /\ faults > 0
    /\ proc[p].pc \in {"mkdir", "create", "write"}
    /\ faults' = faults - 1
    /\ proc' = [proc EXCEPT ![p] =
          IF proc[p].pc = "mkdir" THEN [proc[p] EXCEPT !.pc = "isdir"]
          ELSE [proc[p] EXCEPT !.pc = "err"]]
    /\ UNCHANGED <<fs, hist, loc, fs0, startFs, firstFs>>

\* Ok(())
ReturnOk(p) ==
    /\ proc[p].pc = "ok"
    /\ proc' = [proc EXCEPT ![p] = [Idle EXCEPT !.pc = "done", !.made = proc[p].made]]
    /\ hist' = Append(hist, "Ok")
    /\ firstFs' = IF firstFs = << >> THEN <<fs>> ELSE firstFs
    /\ UNCHANGED <<fs, faults, loc, fs0, startFs>>

\* the ? operator: Err(GitError::Io(e))
ReturnErr(p) ==
    /\ proc[p].pc = "err"
    /\ proc' = [proc EXCEPT ![p] = [Idle EXCEPT !.pc = "failed", !.made = proc[p].made]]
    /\ hist' = Append(hist, "Err")
    /\ UNCHANGED <<fs, faults, loc, fs0, startFs, firstFs>>

----------------------------------------------------------------------------
(* Locating. *)

FindRepo(S) ==
    /\ \A p \in Procs : ~Running(p)
    /\ loc' = [set |-> TRUE, from |-> S, res |-> find_repo(fs, S)]
    /\ UNCHANGED <<fs, proc, hist, faults, fs0, startFs, firstFs>>

from_cwd_or_parent == FindRepo(cwd)

----------------------------------------------------------------------------
(* Initial filesystems. *)

Kinds == {"none", "file", "dir"}

Tree(cand) == [q \in {x \in DOMAIN cand : cand[x].kind # "none"} |-> cand[q]]

KindEntry(k) == IF k = "dir" THEN Dir ELSE IF k = "file" THEN File(<< >>) ELSE NoEntry

HASH40 == <<"0123456789abcdef0123456789abcdef01234567">>
DEVELOP == <<"ref: refs/heads/", "develop">>

HeadChoices == {NoEntry, Dir, File(<< >>), File(HASH40), File(DEVELOP)}
DescriptionChoices == {NoEntry, Dir, File(<<"my project", "\n">>)}
ConfigChoices == {NoEntry, Dir, File(<<"[core]", "\n">>)}

\* a prior state of cwd: any entries at .git and at the well-known paths below it
InitPrior ==
    \E rg \in {"none", "dir"}, g \in Kinds, r \in Kinds, h \in Kinds, t \in Kinds,
       o \in Kinds, i \in Kinds, k \in Kinds,
       hd \in HeadChoices, ds \in DescriptionChoices, cf \in ConfigChoices :
        /\ g # "dir" => r = "none" /\ o = "none" /\ hd = NoEntry /\ ds = NoEntry /\ cf = NoEntry
        /\ r # "dir" => h = "none" /\ t = "none"
        /\ o # "dir" => i = "none" /\ k = "none"
        /\ fs = Tree((<< >> :> Dir) @@ (cwd :> Dir)
                     @@ (git_dir(<< >>) :> KindEntry(rg))
                     @@ (git_dir(cwd) :> KindEntry(g))
                     @@ (refs(cwd) :> KindEntry(r)) @@ (heads(cwd) :> KindEntry(h))
                     @@ (tags(cwd) :> KindEntry(t))
                     @@ (objects(cwd) :> KindEntry(o)) @@ (info(cwd) :> KindEntry(i))
                     @@ (pack(cwd) :> KindEntry(k))
                     @@ (HEAD(cwd) :> hd) @@ (description(cwd) :> ds)
                     @@ (config(cwd) :> cf))

Rest ==
    /\ proc = [p \in Procs |-> Idle]
    /\ hist = << >>
    /\ loc = NoLoc
    /\ fs0 = fs
    /\ startFs = fs
    /\ firstFs = << >>

Init == InitPrior /\ Rest /\ faults = MaxFaults

Next ==
    \/ initialize_git_repository(Main)
    \/ Mkdir(Main)
    \/ IsDir(Main)
    \/ Exists(Main)
    \/ Create(Main)
    \/ Write(Main)
    \/ IoFail(Main)
    \/ ReturnOk(Main)
    \/ ReturnErr(Main)
    \/ from_cwd_or_parent

Spec == Init /\ [][Next]_vars

----------------------------------------------------------------------------
(* Two invocations racing on the same empty directory, no I/O failure. *)

InitFresh == fs = Tree((<< >> :> Dir) @@ (cwd :> Dir))

RaceInit == InitFresh /\ Rest /\ faults = 0

RaceNext ==
    \E p \in Procs :
        \/ initialize_git_repository(p)
        \/ Mkdir(p)
        \/ IsDir(p)
        \/ Exists(p)
        \/ Create(p)
        \/ Write(p)
        \/ ReturnOk(p)

SpecRace == RaceInit /\ [][RaceNext]_vars

----------------------------------------------------------------------------
(* Locating from any starting path S over any chain of ancestors. *)

Deepest == SubSeq(DirNames, 1, MaxDepth)

ChainDirs == {SubSeq(Deepest, 1, k) : k \in 0..MaxDepth}

\* each ancestor is absent, a file or a directory; each directory has no
\* .git entry, a .git file or a .git directory
InitChain ==
    \E K \in [1..MaxDepth -> Kinds], G \in [0..MaxDepth -> Kinds] :
        /\ \A k \in 2..MaxDepth : K[k] # "none" => K[k - 1] = "dir"
        /\ \A k \in 1..MaxDepth : G[k] # "none" => K[k] = "dir"
        /\ fs = Tree([q \in ChainDirs \cup {git_dir(d) : d \in ChainDirs} |->
                        IF q \in ChainDirs
                        THEN (IF Len(q) = 0 THEN Dir ELSE KindEntry(K[Len(q)]))
                        ELSE KindEntry(G[Len(q) - 1])])

LocateInit == InitChain /\ Rest /\ faults = 0

LocateNext == \E S \in ChainDirs : FindRepo(S)

SpecLocate == LocateInit /\ [][LocateNext]_vars

----------------------------------------------------------------------------
(* What the claims speak of. *)

\* cwd is an empty directory in f
Fresh(f) ==
    /\ is_dir(f, cwd)
    /\ \A q \in DOMAIN f : ~(Len(q) > Len(cwd) /\ SubSeq(q, 1, Len(cwd)) = cwd)

\* the filesystem one uninterrupted initialization of an empty cwd leaves
Skeleton(f) ==
    (<<"a", ".git">> :> Dir)
    @@ (<<"a", ".git", "refs">> :> Dir)
    @@ (<<"a", ".git", "refs", "heads">> :> Dir)
    @@ (<<"a", ".git", "refs", "tags">> :> Dir)
    @@ (<<"a", ".git", "objects">> :> Dir)
    @@ (<<"a", ".git", "objects", "info">> :> Dir)
    @@ (<<"a", ".git", "objects", "pack">> :> Dir)
    @@ (<<"a", ".git", "HEAD">> :> File(<<"ref: refs/heads/", "main">>))
    @@ (<<"a", ".git", "description">> :>
          File(<<"Unnamed repository; edit this file 'description' to name the repository.",
                 "\n">>))
    @@ (<<"a", ".git", "config">> :> File(<< >>))
    @@ f

\* d is an existing directory that contains a .git entry
Qualifies(f, d) == d \in DOMAIN f /\ f[d].kind = "dir" /\ (d \o <<".git">>) \in DOMAIN f

Prefix(path, k) == SubSeq(path, 1, k)

----------------------------------------------------------------------------
(* C1: once an initialization of cwd has succeeded and no I/O failure was   *)
(* injected, every further initialization succeeds too and returns with    *)
(* the filesystem exactly as the first one left it: N >= 1 runs leave the  *)
(* state of one run.                                                       *)
C1_Idempotent ==
    (faults = MaxFaults /\ firstFs # << >>) =>
        /\ proc[Main].pc \notin {"err", "failed"}
        /\ proc[Main].pc = "done" => fs = firstFs[1]

C1_Witness ==
    /\ faults = MaxFaults
    /\ Len(hist) >= 2 /\ hist[1] = "Ok" /\ hist[2] = "Ok"
    /\ proc[Main].pc = "done"
    /\ HEAD(cwd) \in DOMAIN fs0 /\ fs0[HEAD(cwd)] = File(DEVELOP)
    /\ description(cwd) \notin DOMAIN fs0

(* C2: a HEAD, description or config file that exists when an              *)
(* initialization is invoked (and one that existed before the first        *)
(* invocation) keeps its content in every state during and after it.       *)
C2_PreexistingUntouched ==
    \A i \in 1..3 :
        LET path == FileTargets(cwd)[i] IN
        /\ (path \in DOMAIN fs0 /\ fs0[path].kind = "file") =>
              (path \in DOMAIN fs /\ fs[path] = fs0[path])
        /\ (path \in DOMAIN startFs /\ startFs[path].kind = "file") =>
              (path \in DOMAIN fs /\ fs[path] = startFs[path])

C2_Witness ==
    /\ proc[Main].pc = "done"
    /\ HEAD(cwd) \in DOMAIN fs0 /\ fs0[HEAD(cwd)] = File(HASH40)
    /\ description(cwd) \in DOMAIN fs0 /\ fs0[description(cwd)].kind = "file"
    /\ config(cwd) \in DOMAIN fs0 /\ fs0[config(cwd)].kind = "file"
    /\ heads(cwd) \notin DOMAIN fs0

C5_SuccessMeansSkeleton ==
    proc[Main].pc = "done" =>
        /\ \A i \in 1..4 : is_dir(fs, DirTargets(cwd)[i])
        /\ \A i \in 1..3 :
              /\ FileTargets(cwd)[i] \in DOMAIN fs
              /\ fs[FileTargets(cwd)[i]].kind = "file"

(* C6: from an empty directory cwd, once initialization has returned       *)
(* success, locating from cwd returns cwd, also when an ancestor is a      *)
(* repository.                                                             *)
C6_InitThenLocate ==
    (loc.set /\ Fresh(fs0) /\ proc[Main].pc = "done") =>
        loc.res = [tag |-> "Ok", variant |-> "", path |-> loc.from]

C6_Witness ==
    /\ loc.set /\ loc.from = <<"a">>
    /\ Fresh(fs0)
    /\ <<".git">> \in DOMAIN fs0
    /\ proc[Main].pc = "done"
    /\ hist = <<"Ok">>

(* C7: a HEAD, description or config that is absent when an                *)
(* initialization starts holds its default content once that               *)
(* initialization has returned success: HEAD the bytes                     *)
(* "ref: refs/heads/main" with no newline, description the placeholder     *)
(* ending in a newline, config nothing.                                    *)
C7_DefaultContent ==
    proc[Main].pc = "done" =>
        /\ HEAD(cwd) \notin DOMAIN startFs =>
              /\ HEAD(cwd) \in DOMAIN fs
              /\ fs[HEAD(cwd)] = [kind |-> "file",
                                  content |-> <<"ref: refs/heads/", "main">>]
        /\ description(cwd) \notin DOMAIN startFs =>
              /\ description(cwd) \in DOMAIN fs
              /\ fs[description(cwd)].kind = "file"
              /\ fs[description(cwd)].content =
                    <<"Unnamed repository; edit this file 'description' to name the repository.",
                      "\n">>
        /\ config(cwd) \notin DOMAIN startFs =>
              /\ config(cwd) \in DOMAIN fs
              /\ fs[config(cwd)] = [kind |-> "file", content |-> << >>]

C7_Witness ==
    /\ proc[Main].pc = "done"
    /\ HEAD(cwd) \notin DOMAIN startFs
    /\ description(cwd) \notin DOMAIN startFs
    /\ config(cwd) \notin DOMAIN startFs
    /\ git_dir(cwd) \in DOMAIN startFs

(* C8: when an initialization of an empty cwd aborted on one I/O failure   *)
(* and the next one succeeded, the filesystem is the one a single          *)
(* uninterrupted initialization leaves.                                    *)
C8_ResumeEqualsOnce ==
    (/\ Fresh(fs0)
     /\ hist = <<"Err", "Ok">>
     /\ faults = MaxFaults - 1
     /\ proc[Main].pc = "done")
    => fs = Skeleton(fs0)

(* C9: whenever find_repo returns Ok(base_dir), base_dir is a directory    *)
(* and base_dir/.git is a directory.                                       *)
C9_GitIsDirectory ==
    (loc.set /\ loc.res.tag = "Ok") =>
        /\ is_dir(fs, loc.res.path)
        /\ is_dir(fs, loc.res.path \o <<".git">>)

(* C10: two invocations interleaved on the same empty directory, with no   *)
(* I/O failure: neither fails, and once both have returned the filesystem  *)
(* is the one a single initialization leaves.                              *)
C10_RaceConverges ==
    /\ \A p \in Procs : proc[p].pc \notin {"err", "failed"}
    /\ (\A p \in Procs : proc[p].pc = "done") => fs = Skeleton(fs0)

C10_Witness ==
    /\ \A p \in Procs : proc[p].pc = "done" /\ proc[p].made = {1, 2, 3}
    /\ hist = <<"Ok", "Ok">>

====
